---- MODULE Spec2Model ----
(***************************************************************************)
(* Model of src/src/app.py: the mobility dashboard.                        *)
(*                                                                         *)
(* The module-level code loads the table (combined_data), derives the      *)
(* time index (sorted_datetimes) and the slider marks, and declares the    *)
(* layout (two dropdowns, a slider, a collapse panel with its button and   *)
(* the route layer).  Two callbacks react to the controls: update_map and  *)
(* toggle_collapse.                                                        *)
(*                                                                         *)
(* Python's None is the empty sequence and a present value v is <<v>>, so  *)
(* that "absent" and every value stay comparable.  Python positions are    *)
(* 0-based; TLA+ sequences are 1-based, the conversion is explicit.        *)
(***************************************************************************)
EXTENDS Integers, Sequences, FiniteSets, TLC

VARIABLES combined_data, sorted_datetimes, slider_marks,
          slider_value, source_value, destination_value,
          route_layer, n_clicks, is_open, loaded, call

vars == <<combined_data, sorted_datetimes, slider_marks,
          slider_value, source_value, destination_value,
          route_layer, n_clicks, is_open, loaded, call>>

\* ---------------------------------------------------------------- bounds
\* MaxRows: rows of a table that varies in every column; MaxTimeRows: rows of
\* a table that varies in its timestamps only; MaxClicks: clicks on the
\* button; MaxIndex: the largest |index| of a direct call of update_map.
MaxRows == 2
MaxTimeRows == 3
MaxClicks == 2
MaxIndex == 4

\* ------------------------------------------------------- input universes
None == <<>>
Some(v) == <<v>>

\* A timestamp is a number of hours: three slots a day (00:00, 08:00, 16:00).
Times == {0, 8, 16, 24}
RowTimes == {0, 8}
Categories == {"Home", "Work"}
Payloads == {1, 2}

\* One row of the CSV after line 27 added the DateTime column.  The payload
\* p fixes the coordinates and the two counts; all six values of a payload
\* differ from each other and from the values of the other payload.
MkRow(t, s, d, p) ==
    [DateTime |-> t, SourceCategory |-> s, DestinationCategory |-> d,
     y0_shifted |-> 10 * p, x0_shifted |-> 10 * p + 1,
     y1_shifted |-> 10 * p + 2, x1_shifted |-> 10 * p + 3,
     Baseline |-> 100 * p + 4, Crisis |-> 100 * p + 5]

RowSet == {MkRow(t, s, d, p) : t \in Times, s \in Categories,
                               d \in Categories, p \in Payloads}

\* The tables the model loads: short ones whose rows vary in every column,
\* and longer ones whose rows vary in the timestamp only.
VariedRows == {r \in RowSet : r.DateTime \in RowTimes}
TimeRows == {MkRow(t, "Home", "Work", 1) : t \in Times}

Tables == UNION {[1 .. n -> VariedRows] : n \in 1 .. MaxRows}
          \cup UNION {[1 .. n -> TimeRows] : n \in 1 .. MaxTimeRows}

\* ------------------------------------------------------ data preparation
Column(table, f) == [k \in 1 .. Len(table) |-> f[table[k]]]

RECURSIVE InsertSorted(_, _)
InsertSorted(x, s) ==
    IF s = <<>> THEN <<x>>
    ELSE IF x < Head(s) THEN <<x>> \o s
    ELSE <<Head(s)>> \o InsertSorted(x, Tail(s))

\* Mutant of sort_values: the sort is left out.
sort_values_unsorted(s) == s

\* Series.sort_values(): the values in ascending order, duplicates kept.
RECURSIVE sort_values(_)
sort_values(s) ==
    IF s = <<>> THEN <<>>
    ELSE InsertSorted(s[Len(s)], sort_values(SubSeq(s, 1, Len(s) - 1)))

\* Series.unique(): the distinct values in order of first appearance.
RECURSIVE unique(_)
unique(s) ==
    IF s = <<>> THEN <<>>
    ELSE LET init == unique(SubSeq(s, 1, Len(s) - 1))
             x == s[Len(s)]
         IN IF \E k \in 1 .. Len(init) : init[k] = x THEN init
            ELSE Append(init, x)

SortedDatetimes(table) ==
    unique(sort_values(Column(table, [r \in RowSet |-> r.DateTime])))

\* The label is the day and the part of the day, (1), (2) or (3).
format_datetime_label(dt) ==
    IF dt % 24 = 0 THEN <<dt \div 24, 1>>
    ELSE IF dt % 24 = 8 THEN <<dt \div 24, 2>>
    ELSE <<dt \div 24, 3>>

SliderMarks(datetimes) ==
    [i \in 0 .. Len(datetimes) - 1 |-> format_datetime_label(datetimes[i + 1])]

SourceOptions == unique(Column(combined_data, [r \in RowSet |-> r.SourceCategory]))
DestinationOptions ==
    unique(Column(combined_data, [r \in RowSet |-> r.DestinationCategory]))

SliderMin == 0
SliderMax == Len(sorted_datetimes) - 1

\* ------------------------------------------------------------ update_map
\* str() of a non-negative integer: its decimal digits, most significant first.
DigitChars == <<"0", "1", "2", "3", "4", "5", "6", "7", "8", "9">>

RECURSIVE Digits(_)
Digits(n) ==
    IF n < 10 THEN <<DigitChars[n + 1]>>
    ELSE Append(Digits(n \div 10), DigitChars[(n % 10) + 1])

\* Mutant of IndexInBounds: a negative index does not wrap around.
IndexInBoundsNoWrap(datetime_index) ==
    /\ datetime_index < Len(sorted_datetimes)
    /\ datetime_index >= 0

\* numpy indexing of an array of length K: 0..K-1 from the front, -K..-1
\* from the back, anything else raises IndexError.
IndexInBounds(datetime_index) ==
    /\ datetime_index < Len(sorted_datetimes)
    /\ datetime_index >= -Len(sorted_datetimes)

SelectedDatetime(datetime_index) ==
    IF datetime_index >= 0 THEN sorted_datetimes[datetime_index + 1]
    ELSE sorted_datetimes[Len(sorted_datetimes) + datetime_index + 1]

\* Mutant of RowMask: the destination comparison is left out.
RowMaskNoDestination(row, selected_datetime, source_category, destination_category) ==
    /\ row.DateTime = selected_datetime
    /\ source_category # None /\ row.SourceCategory = source_category[1]

\* The boolean mask of lines 151-153.  A comparison with None is False.
RowMask(row, selected_datetime, source_category, destination_category) ==
    /\ row.DateTime = selected_datetime
    /\ source_category # None /\ row.SourceCategory = source_category[1]
    /\ destination_category # None
    /\ row.DestinationCategory = destination_category[1]

\* filtered_data: the rows the mask keeps, each with its index label, in
\* table order (what iterrows() yields).
RECURSIVE FilterRows(_, _, _, _)
FilterRows(n, selected_datetime, source_category, destination_category) ==
    IF n = 0 THEN <<>>
    ELSE LET rest == FilterRows(n - 1, selected_datetime, source_category,
                                destination_category)
         IN IF RowMask(combined_data[n], selected_datetime, source_category,
                       destination_category)
            THEN Append(rest, <<n - 1, combined_data[n]>>)
            ELSE rest

\* Mutant of OriginMarker: the tooltip shows the crisis count.
OriginMarkerCrisisCount(row) ==
    [type |-> "Marker", position |-> <<row.y0_shifted, row.x0_shifted>>,
     icon |-> "green", tooltip |-> <<"Baseline: ">> \o Digits(row.Crisis)]

OriginMarker(row) ==
    [type |-> "Marker", position |-> <<row.y0_shifted, row.x0_shifted>>,
     icon |-> "green", tooltip |-> <<"Baseline: ">> \o Digits(row.Baseline)]

DestinationMarker(row) ==
    [type |-> "Marker", position |-> <<row.y1_shifted, row.x1_shifted>>,
     icon |-> "red", tooltip |-> <<"Crisis: ">> \o Digits(row.Crisis)]

RouteLine(row) ==
    [type |-> "Polyline",
     positions |-> << <<row.y0_shifted, row.x0_shifted>>,
                      <<row.y1_shifted, row.x1_shifted>> >>,
     color |-> "blue", weight |-> 1]

\* Mutant of Routes: a record whose origin already carries a marker is merged
\* into it and adds nothing.
RECURSIVE RoutesMerged(_)
RoutesMerged(filtered_data) ==
    IF filtered_data = <<>> THEN <<>>
    ELSE LET row == filtered_data[Len(filtered_data)][2]
             rest == RoutesMerged(SubSeq(filtered_data, 1, Len(filtered_data) - 1))
         IN IF \E j \in 1 .. Len(rest) :
                   /\ rest[j].type = "Marker"
                   /\ rest[j].position = <<row.y0_shifted, row.x0_shifted>>
            THEN rest
            ELSE rest \o <<OriginMarker(row), DestinationMarker(row),
                           RouteLine(row)>>

\* The loop of lines 155-169.
RECURSIVE Routes(_)
Routes(filtered_data) ==
    IF filtered_data = <<>> THEN <<>>
    ELSE LET row == filtered_data[Len(filtered_data)][2]
         IN Routes(SubSeq(filtered_data, 1, Len(filtered_data) - 1))
            \o <<OriginMarker(row), DestinationMarker(row), RouteLine(row)>>

\* Mutant of update_map: an empty selection raises PreventUpdate.
update_map_prevent_empty(datetime_index, source_category, destination_category) ==
    IF ~IndexInBounds(datetime_index)
    THEN [index |-> datetime_index, source |-> source_category,
          destination |-> destination_category, error |-> "IndexError",
          filtered |-> <<>>, routes |-> <<>>]
    ELSE LET filtered_data ==
                 FilterRows(Len(combined_data), SelectedDatetime(datetime_index),
                            source_category, destination_category)
         IN [index |-> datetime_index, source |-> source_category,
             destination |-> destination_category,
             error |-> IF filtered_data = <<>> THEN "PreventUpdate" ELSE "",
             filtered |-> filtered_data, routes |-> Routes(filtered_data)]

\* One invocation of update_map: its arguments, whether it raised, and, when
\* it did not, filtered_data and the returned list.
update_map(datetime_index, source_category, destination_category) ==
    IF ~IndexInBounds(datetime_index)
    THEN [index |-> datetime_index, source |-> source_category,
          destination |-> destination_category, error |-> "IndexError",
          filtered |-> <<>>, routes |-> <<>>]
    ELSE LET filtered_data ==
                 FilterRows(Len(combined_data), SelectedDatetime(datetime_index),
                            source_category, destination_category)
         IN [index |-> datetime_index, source |-> source_category,
             destination |-> destination_category, error |-> "",
             filtered |-> filtered_data, routes |-> Routes(filtered_data)]

\* ------------------------------------------------------- toggle_collapse
\* Truthiness of n_clicks (None or an int) and of is_open (None or a bool).
TruthyCount(n) == n # None /\ n[1] # 0
TruthyBool(b) == b # None /\ b[1]

\* Mutant of toggle_collapse: an activation opens the panel, never closes it.
toggle_collapse_opens(n, open) ==
    IF TruthyCount(n) THEN Some(TRUE) ELSE open

\* Mutant of toggle_collapse: the click count is not looked at.
toggle_collapse_always(n, open) == Some(~TruthyBool(open))

toggle_collapse(n, open) ==
    IF TruthyCount(n) THEN Some(~TruthyBool(open)) ELSE open

\* ------------------------------------------------------------------ Init
\* The state after the module body ran and before a browser loaded the page.
\* The layout sets neither is_open nor n_clicks nor the layer's children.
NoCall == [index |-> 0, source |-> None, destination |-> None,
           error |-> "NoCall", filtered |-> <<>>, routes |-> <<>>]

Init ==
    /\ combined_data \in Tables
    /\ sorted_datetimes = SortedDatetimes(combined_data)
    /\ slider_marks = SliderMarks(sorted_datetimes)
    /\ slider_value = 0
    /\ source_value = Some(SourceOptions[1])
    /\ destination_value = Some(DestinationOptions[1])
    /\ route_layer = None
    /\ n_clicks = None
    /\ is_open = None
    /\ loaded = FALSE
    /\ call = NoCall

\* --------------------------------------------------------------- actions
\* Mutant of RunUpdateMap: the returned list is added to the layer's children.
RunUpdateMapAppend(i, s, d) ==
    LET res == update_map(i, s, d)
    IN /\ call' = res
       /\ route_layer' = IF res.error # "" THEN route_layer
                         ELSE IF route_layer = None THEN Some(res.routes)
                         ELSE Some(route_layer[1] \o res.routes)

\* Dash runs the map callback with the three current input values and puts
\* the returned list in the route layer; on an exception the layer stays.
RunUpdateMap(i, s, d) ==
    LET res == update_map(i, s, d)
    IN /\ call' = res
       /\ route_layer' = IF res.error = "" THEN Some(res.routes) ELSE route_layer

\* The page loads: every callback runs once with the layout's values.
PageLoad ==
    /\ ~loaded
    /\ loaded' = TRUE
    /\ RunUpdateMap(slider_value, source_value, destination_value)
    /\ is_open' = toggle_collapse(n_clicks, is_open)
    /\ UNCHANGED <<combined_data, sorted_datetimes, slider_marks, slider_value,
                   source_value, destination_value, n_clicks>>

\* Mutant of MoveSlider: max=len(sorted_datetimes) and step=1.
MoveSliderFree(i) ==
    /\ loaded
    /\ SliderMin <= i /\ i <= Len(sorted_datetimes)
    /\ i # slider_value
    /\ slider_value' = i
    /\ RunUpdateMap(i, source_value, destination_value)
    /\ UNCHANGED <<combined_data, sorted_datetimes, slider_marks, source_value,
                   destination_value, n_clicks, is_open, loaded>>

\* step=None: the slider stops only at its marks, within [min, max].
MoveSlider(i) ==
    /\ loaded
    /\ i \in DOMAIN slider_marks
    /\ SliderMin <= i /\ i <= SliderMax
    /\ i # slider_value
    /\ slider_value' = i
    /\ RunUpdateMap(i, source_value, destination_value)
    /\ UNCHANGED <<combined_data, sorted_datetimes, slider_marks, source_value,
                   destination_value, n_clicks, is_open, loaded>>

\* A dropdown offers its options and, being clearable, no value at all.
SelectSource(v) ==
    /\ loaded
    /\ v = None \/ \E k \in 1 .. Len(SourceOptions) : v = Some(SourceOptions[k])
    /\ v # source_value
    /\ source_value' = v
    /\ RunUpdateMap(slider_value, v, destination_value)
    /\ UNCHANGED <<combined_data, sorted_datetimes, slider_marks, slider_value,
                   destination_value, n_clicks, is_open, loaded>>

SelectDestination(v) ==
    /\ loaded
    /\ v = None
       \/ \E k \in 1 .. Len(DestinationOptions) : v = Some(DestinationOptions[k])
    /\ v # destination_value
    /\ destination_value' = v
    /\ RunUpdateMap(slider_value, source_value, v)
    /\ UNCHANGED <<combined_data, sorted_datetimes, slider_marks, slider_value,
                   source_value, n_clicks, is_open, loaded>>

Clicks == IF n_clicks = None THEN 0 ELSE n_clicks[1]

\* A click on "Learn more" increments n_clicks and runs toggle_collapse.
ClickButton ==
    /\ loaded
    /\ Clicks < MaxClicks
    /\ n_clicks' = Some(Clicks + 1)
    /\ is_open' = toggle_collapse(n_clicks', is_open)
    /\ UNCHANGED <<combined_data, sorted_datetimes, slider_marks, slider_value,
                   source_value, destination_value, route_layer, loaded, call>>

Next ==
    \/ PageLoad
    \/ \E i \in 0 .. MaxRows + MaxTimeRows : MoveSlider(i)
    \/ \E v \in {None} \cup {Some(c) : c \in Categories} : SelectSource(v)
    \/ \E v \in {None} \cup {Some(c) : c \in Categories} : SelectDestination(v)
    \/ ClickButton

Spec == Init /\ [][Next]_vars

\* The callback function called directly, with any index and any selectors,
\* on the loaded module (no page involved).
DirectCall(i, s, d) ==
    /\ ~loaded
    /\ call' = update_map(i, s, d)
    /\ UNCHANGED <<combined_data, sorted_datetimes, slider_marks, slider_value,
                   source_value, destination_value, route_layer, n_clicks,
                   is_open, loaded>>

CallNext ==
    \E i \in -MaxIndex .. MaxIndex :
        \E s, d \in {Some(c) : c \in Categories} : DirectCall(i, s, d)

SpecCall == Init /\ [][CallNext]_vars

\* ================================================================ claims
\* The timestamp a valid 0-based index names, and the rows (1-based positions)
\* that equal the three selectors of the last invocation.
CallRan == call.error # "NoCall"
CallValid == CallRan /\ 0 <= call.index /\ call.index < Len(sorted_datetimes)
CallTimestamp == sorted_datetimes[call.index + 1]
RowMatches(k) ==
    /\ combined_data[k].DateTime = CallTimestamp
    /\ call.source = Some(combined_data[k].SourceCategory)
    /\ call.destination = Some(combined_data[k].DestinationCategory)
MatchingRows == {k \in 1 .. Len(combined_data) : RowMatches(k)}

\* C1: for a valid index and any selectors, the rows update_map filters are
\* exactly the table rows equal to timeIndex[i], the source and the destination
\* selector: every filtered row is a table row that satisfies all three
\* equalities, every table row that satisfies them is filtered, once, and the
\* rows keep the table's order.
C1_FilterSoundAndComplete ==
    (CallValid /\ call.error = "") =>
        /\ \A j \in 1 .. Len(call.filtered) :
              /\ call.filtered[j][1] + 1 \in MatchingRows
              /\ call.filtered[j][2] = combined_data[call.filtered[j][1] + 1]
        /\ \A k \in MatchingRows :
              \E j \in 1 .. Len(call.filtered) : call.filtered[j][1] = k - 1
        /\ \A j \in 1 .. Len(call.filtered) - 1 :
              call.filtered[j][1] < call.filtered[j + 1][1]

\* One row is kept and another, equal to the selectors in its timestamp and
\* its source, is dropped for its destination.
C1_Witness ==
    /\ CallValid /\ call.error = ""
    /\ Len(call.filtered) = 1
    /\ Len(combined_data) = 2
    /\ \E k \in 1 .. 2 :
          /\ k \notin MatchingRows
          /\ combined_data[k].DateTime = CallTimestamp
          /\ call.source = Some(combined_data[k].SourceCategory)

\* C2: the returned list has 3 * len(records) drawables; positions 3k, 3k+1,
\* 3k+2 hold the origin marker, the destination marker and the route line of
\* the k-th record, in input order; records with the same coordinates are not
\* merged.
C2_ThreeDrawablesPerRecord ==
    (CallRan /\ call.error = "") =>
        /\ Len(call.routes) = 3 * Len(call.filtered)
        /\ \A k \in 1 .. Len(call.filtered) :
              LET row == call.filtered[k][2]
                  o == call.routes[3 * k - 2]
                  d == call.routes[3 * k - 1]
                  l == call.routes[3 * k]
              IN /\ o.type = "Marker" /\ o.icon = "green"
                 /\ o.position = <<row.y0_shifted, row.x0_shifted>>
                 /\ d.type = "Marker" /\ d.icon = "red"
                 /\ d.position = <<row.y1_shifted, row.x1_shifted>>
                 /\ l.type = "Polyline"
                 /\ l.positions[1] = o.position /\ l.positions[2] = d.position

\* Two filtered records with the same coordinates give six drawables.
C2_Witness ==
    /\ CallRan /\ call.error = ""
    /\ Len(call.filtered) = 2
    /\ call.filtered[1][2].y0_shifted = call.filtered[2][2].y0_shifted
    /\ call.filtered[1][2].y1_shifted = call.filtered[2][2].y1_shifted
    /\ Len(call.routes) = 6

\* The number a sequence of decimal digit characters denotes.
DigitValue(c) == CHOOSE v \in 0 .. 9 : DigitChars[v + 1] = c
RECURSIVE DecimalValue(_)
DecimalValue(ds) ==
    IF ds = <<>> THEN 0
    ELSE 10 * DecimalValue(SubSeq(ds, 1, Len(ds) - 1)) + DigitValue(ds[Len(ds)])

\* C3: for every record rendered, the origin marker is at the record's origin
\* and labelled "Baseline: " followed by its baseline count, the destination
\* marker is at the record's destination and labelled "Crisis: " followed by
\* its crisis count, and the line runs from the origin to the destination; the
\* record is the table row the filter kept, so no value is another record's.
C3_MarkersCarryOwnRecord ==
    (CallRan /\ call.error = "") =>
        \A k \in 1 .. Len(call.filtered) :
            LET row == combined_data[call.filtered[k][1] + 1]
                o == call.routes[3 * k - 2]
                d == call.routes[3 * k - 1]
                l == call.routes[3 * k]
            IN /\ o.position = <<row.y0_shifted, row.x0_shifted>>
               /\ Head(o.tooltip) = "Baseline: "
               /\ Len(o.tooltip) > 1
               /\ DecimalValue(Tail(o.tooltip)) = row.Baseline
               /\ d.position = <<row.y1_shifted, row.x1_shifted>>
               /\ Head(d.tooltip) = "Crisis: "
               /\ Len(d.tooltip) > 1
               /\ DecimalValue(Tail(d.tooltip)) = row.Crisis
               /\ l.positions = << <<row.y0_shifted, row.x0_shifted>>,
                                   <<row.y1_shifted, row.x1_shifted>> >>

\* Two records with different coordinates and counts are rendered together.
C3_Witness ==
    /\ CallRan /\ call.error = ""
    /\ Len(call.filtered) = 2
    /\ call.filtered[1][2].Baseline # call.filtered[2][2].Baseline
    /\ call.routes[1].tooltip # call.routes[4].tooltip
    /\ call.routes[3].positions # call.routes[6].positions

\* C4 as stated: every index outside 0 .. len(timeIndex)-1, negative ones
\* included, is signalled as an error and resolves to no timestamp.
C4_EveryInvalidIndexRaises ==
    (CallRan /\ ~CallValid) => call.error = "IndexError"

\* C4 as amended: an index >= len(timeIndex) or < -len(timeIndex) is signalled
\* as an error and gives no drawable list; an index in -len(timeIndex) .. -1
\* is not signalled: it resolves to timeIndex[len(timeIndex) + index] and
\* gives that timestamp's rows.
C4_IndexBeyondBothEndsRaises ==
    CallRan =>
        LET K == Len(sorted_datetimes)
        IN /\ (call.index >= K \/ call.index < -K) =>
                 /\ call.error = "IndexError"
                 /\ call.routes = <<>>
                 /\ route_layer = None
           /\ (-K <= call.index /\ call.index < 0) =>
                 /\ call.error = ""
                 /\ \A j \in 1 .. Len(call.filtered) :
                       call.filtered[j][2].DateTime
                           = sorted_datetimes[K + call.index + 1]
                 /\ \A k \in 1 .. Len(combined_data) :
                       ( /\ combined_data[k].DateTime
                               = sorted_datetimes[K + call.index + 1]
                         /\ call.source = Some(combined_data[k].SourceCategory)
                         /\ call.destination
                               = Some(combined_data[k].DestinationCategory) )
                       => \E j \in 1 .. Len(call.filtered) :
                              call.filtered[j][1] = k - 1

\* A negative index that wraps to a timestamp other than the first and
\* returns drawables.
C4_Witness ==
    /\ CallRan
    /\ call.index < 0 /\ call.index >= -Len(sorted_datetimes)
    /\ Len(sorted_datetimes) > 1
    /\ call.error = ""
    /\ Len(call.routes) >= 3

\* C5: with K the number of distinct DateTime values of the table, the time
\* index has exactly K elements, is strictly ascending (so has no duplicate),
\* holds every timestamp of the table and no other, and the slider marks are
\* keyed by exactly 0 .. K-1.
TableTimestamps == {combined_data[k].DateTime : k \in 1 .. Len(combined_data)}
C5_TimeIndexSortedDistinct ==
    /\ Len(sorted_datetimes) = Cardinality(TableTimestamps)
    /\ \A i \in 1 .. Len(sorted_datetimes) - 1 :
          sorted_datetimes[i] < sorted_datetimes[i + 1]
    /\ {sorted_datetimes[i] : i \in 1 .. Len(sorted_datetimes)} = TableTimestamps
    /\ DOMAIN slider_marks = 0 .. Cardinality(TableTimestamps) - 1

\* A table of three rows, out of order, with one timestamp twice.
C5_Witness ==
    /\ Len(combined_data) = 3
    /\ combined_data[1].DateTime > combined_data[2].DateTime
    /\ combined_data[3].DateTime = combined_data[1].DateTime
    /\ Len(sorted_datetimes) = 2
    /\ loaded

\* C6: with an activation toggle_collapse flips the open/closed state, twice
\* it gives the starting open/closed state back, for every starting state; and
\* from the initial closed state the panel is open after k clicks exactly when
\* k is odd.
OpenStates == {None, Some(FALSE), Some(TRUE)}
C6_ToggleIsInvolution ==
    /\ TruthyBool(is_open) <=> (Clicks % 2 = 1)
    /\ \A o \in OpenStates : \A n \in 1 .. MaxClicks + 1 :
          /\ TruthyBool(toggle_collapse(Some(n), o)) = ~TruthyBool(o)
          /\ TruthyBool(toggle_collapse(Some(n + 1),
                                        toggle_collapse(Some(n), o)))
                = TruthyBool(o)

\* After two clicks the panel is closed again.
C6_Witness ==
    /\ loaded
    /\ n_clicks = Some(2)
    /\ is_open = Some(FALSE)

\* C7: without an activation (click count absent or zero) toggle_collapse
\* returns is_open as it is, for every current state; so the page load, which
\* runs it with no click count, leaves the panel as the layout declared it.
C7_NoActivationIsIdentity ==
    /\ \A o \in OpenStates : \A n \in {None, Some(0)} :
          toggle_collapse(n, o) = o
    /\ (loaded /\ n_clicks = None) => is_open = None

\* The page is loaded and the button was never clicked.
C7_Witness ==
    /\ loaded
    /\ n_clicks = None
    /\ is_open = None

\* C8: with a valid index, a selection that no row matches gives an empty
\* list and no error.
C8_NoMatchGivesEmptyList ==
    (CallValid /\ MatchingRows = {}) =>
        /\ call.error = ""
        /\ call.routes = <<>>
        /\ route_layer = Some(<<>>)

\* Each of the three selected values occurs in the table, in no row together.
C8_Witness ==
    /\ loaded /\ CallValid
    /\ MatchingRows = {}
    /\ call.routes = <<>>
    /\ \E k \in 1 .. Len(combined_data) :
          call.source = Some(combined_data[k].SourceCategory)
    /\ \E k \in 1 .. Len(combined_data) :
          call.destination = Some(combined_data[k].DestinationCategory)

\* The drawables of the rows that match the current selector triple, from the
\* state alone.
CurrentTimestamp == sorted_datetimes[slider_value + 1]
CurrentMatches(k) ==
    /\ combined_data[k].DateTime = CurrentTimestamp
    /\ source_value = Some(combined_data[k].SourceCategory)
    /\ destination_value = Some(combined_data[k].DestinationCategory)
RECURSIVE CurrentDrawables(_)
CurrentDrawables(n) ==
    IF n = 0 THEN <<>>
    ELSE CurrentDrawables(n - 1)
         \o (IF CurrentMatches(n)
             THEN <<OriginMarker(combined_data[n]),
                    DestinationMarker(combined_data[n]),
                    RouteLine(combined_data[n])>>
             ELSE <<>>)

\* C9: after any sequence of selector changes the displayed layer is the
\* drawables of the current selector triple alone (a function of the table and
\* the triple, so nothing is left over and the history does not matter), and no
\* step changes the table or the time index.
C9_LayerIsFunctionOfSelection ==
    [][ /\ loaded' =>
            /\ route_layer' = Some(CurrentDrawables(Len(combined_data)))'
            /\ call'.index = slider_value'
            /\ call'.source = source_value'
            /\ call'.destination = destination_value'
        /\ combined_data' = combined_data
        /\ sorted_datetimes' = sorted_datetimes
        /\ slider_marks' = slider_marks ]_vars

\* All three selectors were changed and the layer is empty.
C9_Witness ==
    /\ loaded
    /\ slider_value > 0
    /\ source_value # Some(SourceOptions[1])
    /\ destination_value = None
    /\ route_layer = Some(<<>>)

\* C10: every index the UI passes to update_map satisfies
\* 0 <= index < len(timeIndex), and update_map never raises IndexError.
C10_SliderIndexInRange ==
    /\ 0 <= slider_value /\ slider_value < Len(sorted_datetimes)
    /\ CallRan =>
          /\ 0 <= call.index /\ call.index < Len(sorted_datetimes)
          /\ call.error = ""

\* The slider stands at its last position, beyond the first.
C10_Witness ==
    /\ loaded
    /\ call.index = Len(sorted_datetimes) - 1
    /\ call.index >= 2

====
